---- MODULE Spec2Model ----
(***************************************************************************)
(* Model of the Claude Code Model Router: the ConfigManager (model          *)
(* registry, alias mapping, credential store) and the ModelRouter (route    *)
(* resolution, header/body/URL construction, forwarding).                   *)
(*                                                                          *)
(* JavaScript objects are TLA+ functions whose DOMAIN is the set of own     *)
(* properties; an absent optional field is a name missing from the DOMAIN.  *)
(* URLs are sequences of characters, so that the trailing-slash regex and   *)
(* String.includes are computed on the text itself.  Request names range    *)
(* over strings that are not properties inherited from Object.prototype.    *)
(***************************************************************************)
EXTENDS Integers, Sequences, FiniteSets, TLC

VARIABLES
    env,        \* process.env: environment variable name -> value
    config,     \* ConfigManager.config (RouterConfig)
    apiKeys,    \* ConfigManager.apiKeys (Map: model name -> key)
    op,         \* the last call of a synchronous method and its outcome
    call,       \* the forwardRequest / forwardStream call that is followed
    res         \* the Express response of the POST /v1/messages request in progress

vars == <<env, config, apiKeys, op, call, res>>

----------------------------------------------------------------------------
(* Bounds of the explored configurations                                    *)

MaxUserModels == 2      \* entries of `models:` in the external config file
MaxUserAliases == 1     \* entries of `aliases:` in the external config file

----------------------------------------------------------------------------
(* Generic helpers for JavaScript objects and strings                       *)

\* obj[k] = v on a plain object: adds the property or overwrites it
SetField(f, k, v) == [x \in DOMAIN f \cup {k} |-> IF x = k THEN v ELSE f[x]]

\* { ...a, ...b }: own properties of a, overridden and extended by those of b
Spread(a, b) == [x \in DOMAIN a \cup DOMAIN b |-> IF x \in DOMAIN b THEN b[x] ELSE a[x]]

\* key order of { ...a, ...b }: the keys of a in their order, then the new keys of b
SpreadOrder(ka, kb) == ka \o SelectSeq(kb, LAMBDA k : \A i \in 1..Len(ka) : ka[i] # k)

\* String.prototype.includes
Includes(s, sub) ==
    \E i \in 0..(Len(s) - Len(sub)) : \A j \in 1..Len(sub) : s[i + j] = sub[j]

\* obj[k], where a property that is missing reads as undefined
Prop(obj, k) == IF k \in DOMAIN obj THEN obj[k] ELSE "undefined"

\* s.replace(/\/$/, ''): removes one '/' at the very end of the string
StripTrailingSlash(s) ==
    IF Len(s) > 0 /\ s[Len(s)] = "/" THEN SubSeq(s, 1, Len(s) - 1) ELSE s

\* Array.prototype.join
RECURSIVE Join(_, _)
Join(xs, sep) ==
    IF Len(xs) = 0 THEN <<>>
    ELSE IF Len(xs) = 1 THEN <<xs[1]>>
    ELSE <<xs[1], sep>> \o Join(Tail(xs), sep)

----------------------------------------------------------------------------
(* DEFAULT_CONFIG                                                           *)

UrlDeepseek == <<"h","t","t","p","s",":","/","/","a","p","i",".","d","e","e","p","s","e","e","k",".","c","o","m","/","a","n","t","h","r","o","p","i","c">>
UrlKimi == <<"h","t","t","p","s",":","/","/","a","p","i",".","k","i","m","i",".","c","o","m","/","c","o","d","i","n","g","/">>
UrlMinimax == <<"h","t","t","p","s",":","/","/","a","p","i",".","m","i","n","i","m","a","x","i",".","c","o","m","/","a","n","t","h","r","o","p","i","c">>
UrlQwen == <<"h","t","t","p","s",":","/","/","d","a","s","h","s","c","o","p","e",".","a","l","i","y","u","n","c","s",".","c","o","m","/","a","p","p","s","/","a","n","t","h","r","o","p","i","c">>
UrlGlm == <<"h","t","t","p","s",":","/","/","a","p","i",".","z",".","a","i","/","a","p","i","/","a","n","t","h","r","o","p","i","c">>

DefaultModelOrder == <<"deepseek", "kimi", "minimax", "qwen", "glm">>

DefaultModels ==
    [deepseek |-> [display_name |-> "DeepSeek V3.2", provider |-> "deepseek",
                   model_id |-> "deepseek-chat", base_url |-> UrlDeepseek,
                   api_key_env |-> "DEEPSEEK_API_KEY", auth_header |-> "x-api-key",
                   supports_streaming |-> TRUE, supports_tools |-> TRUE,
                   max_tokens |-> 8192, context_window |-> 64000],
     kimi     |-> [display_name |-> "Kimi K2 Thinking", provider |-> "moonshot",
                   model_id |-> "kimi-for-coding", base_url |-> UrlKimi,
                   api_key_env |-> "KIMI_API_KEY", auth_header |-> "x-api-key",
                   supports_streaming |-> TRUE, supports_tools |-> TRUE,
                   max_tokens |-> 32768, context_window |-> 262144],
     minimax  |-> [display_name |-> "MiniMax M2", provider |-> "minimax",
                   model_id |-> "MiniMax-M2", base_url |-> UrlMinimax,
                   api_key_env |-> "MINIMAX_API_KEY", auth_header |-> "x-api-key",
                   supports_streaming |-> TRUE, supports_tools |-> TRUE,
                   max_tokens |-> 16384, context_window |-> 128000],
     qwen     |-> [display_name |-> "Qwen3 Max", provider |-> "alibaba",
                   model_id |-> "qwen-plus", base_url |-> UrlQwen,
                   api_key_env |-> "QWEN_API_KEY", auth_header |-> "x-api-key",
                   supports_streaming |-> TRUE, supports_tools |-> TRUE,
                   max_tokens |-> 8192, context_window |-> 131072],
     glm      |-> [display_name |-> "GLM 4.6", provider |-> "zhipu",
                   model_id |-> "GLM-4.6", base_url |-> UrlGlm,
                   api_key_env |-> "GLM_API_KEY", auth_header |-> "x-api-key",
                   supports_streaming |-> TRUE, supports_tools |-> TRUE,
                   max_tokens |-> 8192, context_window |-> 128000]]

DefaultAliases ==
    [x \in {"deepseek-v3", "deepseek-chat", "ds", "kimi-k2", "kimi-k2-thinking",
            "moonshot", "minimax-m2", "mm", "qwen3", "qwen3-max", "tongyi",
            "glm-4.6", "zhipu", "chatglm"} |->
        CASE x \in {"deepseek-v3", "deepseek-chat", "ds"} -> "deepseek"
          [] x \in {"kimi-k2", "kimi-k2-thinking", "moonshot"} -> "kimi"
          [] x \in {"minimax-m2", "mm"} -> "minimax"
          [] x \in {"qwen3", "qwen3-max", "tongyi"} -> "qwen"
          [] OTHER -> "glm"]

DefaultGateway ==
    [host |-> "0.0.0.0", port |-> 8080, timeout |-> 300,
     enable_logging |-> TRUE, log_level |-> "INFO"]

DEFAULT_CONFIG ==
    [default_model |-> "deepseek", modelOrder |-> DefaultModelOrder,
     models |-> DefaultModels, aliases |-> DefaultAliases, gateway |-> DefaultGateway]

----------------------------------------------------------------------------
(* External config files (the parsed YAML) that the model explores          *)

UrlAnthropic == <<"h","t","t","p","s",":","/","/","a","p","i",".","a","n","t","h","r","o","p","i","c",".","c","o","m","/">>
UrlMoonshot == <<"h","t","t","p","s",":","/","/","a","p","i",".","m","o","o","n","s","h","o","t",".","c","n","/","/">>
UrlDeepseekPlain == <<"h","t","t","p","s",":","/","/","a","p","i",".","d","e","e","p","s","e","e","k",".","c","o","m">>

\* model entries a user file may carry: a native-provider model without
\* auth_header and max_tokens, a model whose name is also a default alias,
\* and a redefinition of a default model
UserModelOrder == <<"claude", "moonshot", "deepseek">>

UserModelEntries ==
    [claude   |-> [display_name |-> "Claude Sonnet", provider |-> "anthropic",
                   model_id |-> "claude-sonnet", base_url |-> UrlAnthropic,
                   api_key_env |-> "ANTHROPIC_API_KEY"],
     moonshot |-> [display_name |-> "Moonshot V1", provider |-> "moonshot",
                   model_id |-> "moonshot-v1", base_url |-> UrlMoonshot,
                   api_key_env |-> "MOONSHOT_API_KEY", auth_header |-> "Authorization",
                   max_tokens |-> 4096],
     deepseek |-> [display_name |-> "DeepSeek R1", provider |-> "deepseek",
                   model_id |-> "deepseek-reasoner", base_url |-> UrlDeepseekPlain,
                   api_key_env |-> "DEEPSEEK_API_KEY", auth_header |-> "x-api-key",
                   max_tokens |-> 8192]]

\* alias entries a user file may carry: an alias of "moonshot" (a default
\* alias, and a model when the file registers it), an alias of a name that
\* is not registered, an alias of a user model
UserAliasEntries == [ms |-> "moonshot", old |-> "gone", sonnet |-> "claude"]

Restrict(f, S) == [x \in S |-> f[x]]

ParsedConfigs ==
    { [modelOrder |-> SelectSeq(UserModelOrder, LAMBDA k : k \in ms),
       models |-> Restrict(UserModelEntries, ms),
       aliases |-> Restrict(UserAliasEntries, as)] :
        ms \in { s \in SUBSET DOMAIN UserModelEntries : Cardinality(s) <= MaxUserModels },
        as \in { s \in SUBSET DOMAIN UserAliasEntries : Cardinality(s) <= MaxUserAliases } }

\* ConfigManager.mergeConfig
\* a key the parsed file leaves out is undefined: `??` falls back to the
\* default and a spread of undefined adds nothing
mergeConfig(parsed) ==
    [default_model |-> IF "default_model" \in DOMAIN parsed
                       THEN parsed.default_model
                       ELSE DEFAULT_CONFIG.default_model,
     modelOrder |-> IF "models" \in DOMAIN parsed
                    THEN SpreadOrder(DEFAULT_CONFIG.modelOrder, parsed.modelOrder)
                    ELSE DEFAULT_CONFIG.modelOrder,
     models |-> IF "models" \in DOMAIN parsed
                THEN Spread(DEFAULT_CONFIG.models, parsed.models)
                ELSE DEFAULT_CONFIG.models,
     aliases |-> IF "aliases" \in DOMAIN parsed
                 THEN Spread(DEFAULT_CONFIG.aliases, parsed.aliases)
                 ELSE DEFAULT_CONFIG.aliases,
     gateway |-> IF "gateway" \in DOMAIN parsed
                 THEN Spread(DEFAULT_CONFIG.gateway, parsed.gateway)
                 ELSE DEFAULT_CONFIG.gateway]

----------------------------------------------------------------------------
(* process.env                                                              *)

EnvVars == {"DEEPSEEK_API_KEY", "KIMI_API_KEY", "ANTHROPIC_API_KEY", "MOONSHOT_API_KEY"}

SecretOf ==
    [DEEPSEEK_API_KEY |-> "sk-deepseek", KIMI_API_KEY |-> "sk-kimi",
     ANTHROPIC_API_KEY |-> "sk-ant", MOONSHOT_API_KEY |-> "sk-moonshot"]

\* every variable is unset or holds its secret; DEEPSEEK_API_KEY may also be
\* set to the empty string, as in the generated .env template
Environments ==
    UNION { { Restrict(SecretOf, S), SetField(Restrict(SecretOf, S), "DEEPSEEK_API_KEY", "") } :
            S \in SUBSET EnvVars }

\* ConfigManager.loadApiKeys
loadApiKeys(cfg, e) ==
    LET variable(name) == Prop(cfg.models[name], "api_key_env")
        hasKey(name) == /\ variable(name) \in DOMAIN e
                        /\ e[variable(name)] # ""
    IN  [name \in { n \in DOMAIN cfg.models : hasKey(n) } |-> e[variable(name)]]

----------------------------------------------------------------------------
(* ConfigManager lookups                                                    *)

\* ConfigManager.getModel; a record with found = FALSE stands for undefined
getModel(name) ==
    IF name \in DOMAIN config.models
        THEN [found |-> TRUE, config |-> config.models[name]]
    ELSE IF name \in DOMAIN config.aliases /\ config.aliases[name] \in DOMAIN config.models
        THEN [found |-> TRUE, config |-> config.models[config.aliases[name]]]
    ELSE [found |-> FALSE]

\* ConfigManager.resolveModelName
resolveModelName(name) ==
    IF name \in DOMAIN config.aliases THEN config.aliases[name]
    ELSE IF name \in DOMAIN config.models THEN name
    ELSE name

\* ConfigManager.getApiKey; a record with found = FALSE stands for undefined
getApiKey(modelName) ==
    LET resolved == resolveModelName(modelName)
    IN  IF resolved \in DOMAIN apiKeys
            THEN [found |-> TRUE, key |-> apiKeys[resolved]]
            ELSE [found |-> FALSE]

----------------------------------------------------------------------------
(* ModelRouter.resolveRoute                                                 *)

\* new RouterError(message, statusCode, errorType)
RouterError(message, statusCode, errorType) ==
    [ok |-> FALSE, message |-> message, statusCode |-> statusCode, errorType |-> errorType]

\* resolveRoute with the credential looked up before the model
resolveRoute_CredentialFirst(modelName) ==
    LET resolvedName == resolveModelName(modelName)
        modelConfig == getModel(resolvedName)
        apiKey == getApiKey(resolvedName)
    IN  IF ~apiKey.found
            THEN RouterError(<<"API key not configured for model '", resolvedName, "'.">>,
                             401, "authentication_error")
        ELSE IF ~modelConfig.found
            THEN RouterError(<<"Model '", modelName, "' not found. Available models: ">>
                               \o Join(config.modelOrder, ", "),
                             400, "invalid_model")
        ELSE [ok |-> TRUE, name |-> resolvedName, config |-> modelConfig.config,
              apiKey |-> apiKey.key]

\* the text of a message is the sequence of the pieces its template joins
resolveRoute(modelName) ==
    LET resolvedName == resolveModelName(modelName)
        modelConfig == getModel(resolvedName)
        apiKey == getApiKey(resolvedName)
    IN  IF ~modelConfig.found
            THEN RouterError(<<"Model '", modelName, "' not found. Available models: ">>
                               \o Join(config.modelOrder, ", "),
                             400, "invalid_model")
        ELSE IF ~apiKey.found \/ apiKey.key = ""
            THEN RouterError(<<"API key not configured for model '",
                               modelConfig.config.display_name,
                               "'. Please set the ", Prop(modelConfig.config, "api_key_env"),
                               " environment variable.">>,
                             401, "authentication_error")
        ELSE [ok |-> TRUE, name |-> resolvedName, config |-> modelConfig.config,
              apiKey |-> apiKey.key]

----------------------------------------------------------------------------
(* Request/response transformer                                             *)

DefaultMaxTokens == 8192

ContentTypeJson == "application/json"
AnthropicVersion == "2023-06-01"

EndpointMessages == <<"/","v","1","/","m","e","s","s","a","g","e","s">>
MarkerAnthropic == <<"/","a","n","t","h","r","o","p","i","c">>
MarkerCoding == <<"/","c","o","d","i","n","g">>
MarkerAppsAnthropic == <<"/","a","p","p","s","/","a","n","t","h","r","o","p","i","c">>

\* route.config.auth_header || 'x-api-key'
authHeaderName(modelConfig) ==
    IF "auth_header" \in DOMAIN modelConfig /\ modelConfig.auth_header # ""
        THEN modelConfig.auth_header ELSE "x-api-key"

\* buildHeaders that passes the inbound anthropic-version on
buildHeaders_InboundVersion(route, originalHeaders) ==
    LET base == SetField([x \in {"Content-Type", "Accept"} |-> ContentTypeJson],
                         authHeaderName(route.config), route.apiKey)
        versioned == SetField(base, "anthropic-version",
                              IF "anthropic-version" \in DOMAIN originalHeaders
                                  THEN originalHeaders["anthropic-version"]
                                  ELSE AnthropicVersion)
    IN  IF route.config.provider = "anthropic"
            THEN IF "anthropic-beta" \in DOMAIN originalHeaders
                    /\ originalHeaders["anthropic-beta"] # ""
                 THEN SetField(versioned, "anthropic-beta", originalHeaders["anthropic-beta"])
                 ELSE versioned
            ELSE base

\* ModelRouter.buildHeaders
buildHeaders(route, originalHeaders) ==
    LET base == SetField([x \in {"Content-Type", "Accept"} |-> ContentTypeJson],
                         authHeaderName(route.config), route.apiKey)
        versioned == SetField(base, "anthropic-version", AnthropicVersion)
    IN  IF route.config.provider = "anthropic"
            THEN IF "anthropic-beta" \in DOMAIN originalHeaders
                    /\ originalHeaders["anthropic-beta"] # ""
                 THEN SetField(versioned, "anthropic-beta", originalHeaders["anthropic-beta"])
                 ELSE versioned
            ELSE base

\* modelConfig.max_tokens || 8192
modelMaxTokens(modelConfig) ==
    IF "max_tokens" \in DOMAIN modelConfig /\ modelConfig.max_tokens # 0
        THEN modelConfig.max_tokens ELSE DefaultMaxTokens

\* buildRequestBody that sets a supplied max_tokens to the ceiling
buildRequestBody_SetToCeiling(request, modelConfig) ==
    LET body == SetField(request, "model", modelConfig.model_id)
        maxTokens == modelMaxTokens(modelConfig)
    IN  IF "max_tokens" \in DOMAIN body /\ body.max_tokens # 0
            THEN SetField(body, "max_tokens", maxTokens)
            ELSE body

\* buildRequestBody that substitutes the model only where it clamps
buildRequestBody_ModelOnClamp(request, modelConfig) ==
    LET maxTokens == modelMaxTokens(modelConfig)
    IN  IF "max_tokens" \in DOMAIN request /\ request.max_tokens # 0
           /\ request.max_tokens > maxTokens
            THEN SetField(SetField(request, "model", modelConfig.model_id),
                          "max_tokens", maxTokens)
            ELSE request

\* variant of copyRequest: `const body = request`, the same object
copyRequest_SameObject(request) == [fresh |-> FALSE, value |-> request]

\* `const body = { ...request }`: a new object with the own properties of
\* the request
copyRequest(request) == [fresh |-> TRUE, value |-> request]

\* the caller's request object once `body` has been written to: untouched
\* when body is a new object, the written body when it is the same object
requestAfter(request, body) ==
    IF copyRequest(request).fresh THEN request ELSE body

\* ModelRouter.buildRequestBody
buildRequestBody(request, modelConfig) ==
    LET body == SetField(request, "model", Prop(modelConfig, "model_id"))
        maxTokens == modelMaxTokens(modelConfig)
    IN  IF "max_tokens" \in DOMAIN body /\ body.max_tokens # 0 /\ body.max_tokens > maxTokens
            THEN SetField(body, "max_tokens", maxTokens)
            ELSE body

\* buildUrl that knows the '/anthropic' marker only
buildUrl_AnthropicMarkerOnly(modelConfig, endpoint) ==
    LET baseUrl == StripTrailingSlash(modelConfig.base_url)
    IN  IF modelConfig.provider = "anthropic" THEN baseUrl \o endpoint
        ELSE IF Includes(baseUrl, MarkerAnthropic) THEN baseUrl \o EndpointMessages
        ELSE baseUrl \o endpoint

\* ModelRouter.buildUrl
buildUrl(modelConfig, endpoint) ==
    LET baseUrl == StripTrailingSlash(modelConfig.base_url)
    IN  IF modelConfig.provider = "anthropic" THEN baseUrl \o endpoint
        ELSE IF \/ Includes(baseUrl, MarkerAnthropic)
                \/ Includes(baseUrl, MarkerCoding)
                \/ Includes(baseUrl, MarkerAppsAnthropic)
            THEN baseUrl \o EndpointMessages
        ELSE baseUrl \o endpoint

\* POST /v1/messages: the headers of the inbound request handed to the router
originalHeadersOf(reqHeaders) ==
    Restrict(reqHeaders, { h \in {"anthropic-beta", "anthropic-version"} :
                            h \in DOMAIN reqHeaders /\ reqHeaders[h] # "" })

----------------------------------------------------------------------------
(* Forwarder: what the upstream may answer                                  *)

\* JSON.parse on the texts an upstream sends; valid = FALSE is a SyntaxError
JSONParse(text) ==
    CASE text = "{\"error\":{\"message\":\"Overloaded\"}}"
            -> [valid |-> TRUE, isNull |-> FALSE, value |-> [error |-> [message |-> "Overloaded"]]]
      [] text = "{\"detail\":\"bad request\"}"
            -> [valid |-> TRUE, isNull |-> FALSE, value |-> [detail |-> "bad request"]]
      [] text = "{\"id\":\"msg_1\",\"usage\":{\"input_tokens\":3,\"output_tokens\":5}}"
            -> [valid |-> TRUE, isNull |-> FALSE,
                value |-> [id |-> "msg_1", usage |-> [input_tokens |-> 3, output_tokens |-> 5]]]
      [] text = "null"
            -> [valid |-> TRUE, isNull |-> TRUE]
      [] OTHER -> [valid |-> FALSE]

\* errorJson.error?.message || errorText, raw text when parsing throws
upstreamErrorMessage(errorText) ==
    LET errorJson == JSONParse(errorText)
    IN  IF /\ errorJson.valid
           /\ ~errorJson.isNull
           /\ "error" \in DOMAIN errorJson.value
           /\ "message" \in DOMAIN errorJson.value.error
           /\ errorJson.value.error.message # ""
        THEN errorJson.value.error.message
        ELSE errorText

\* response.ok
ResponseOk(status) == status >= 200 /\ status <= 299

\* outcomes of fetch and of reading the body, for forwardRequest:
\* the timer aborts the call, the transport fails, or a response arrives
\* whose body can be read (bodyFails = FALSE) or breaks off
UpstreamOutcomes ==
    { [kind |-> "abort"], [kind |-> "network", message |-> "fetch failed"] }
    \cup { [kind |-> "response", status |-> st, text |-> t, bodyFails |-> FALSE] :
             st \in {200, 429},
             t \in { "{\"id\":\"msg_1\",\"usage\":{\"input_tokens\":3,\"output_tokens\":5}}",
                     "{\"error\":{\"message\":\"Overloaded\"}}",
                     "<html>Bad Gateway</html>", "null" } }
    \cup { [kind |-> "response", status |-> st, text |-> "", bodyFails |-> TRUE] : st \in {200, 429} }

NotIssued == [issued |-> FALSE]

\* buildUrl on a model entry without base_url: undefined.replace(...)
UndefinedBaseUrl ==
    [ok |-> FALSE, name |-> "TypeError",
     message |-> <<"Cannot read properties of undefined (reading 'replace')">>]

\* variant of forwardRequest: the catch block without its rethrow of a
\* RouterError, so that the api_error is wrapped as a connection error
forwardRequest_NoRethrow(request, originalHeaders, upstream) ==
    LET route == resolveRoute(request.model)
    IN  IF ~route.ok THEN [route |-> route, outbound |-> NotIssued, result |-> route]
        ELSE IF "base_url" \notin DOMAIN route.config
            THEN [route |-> route, outbound |-> NotIssued, result |-> UndefinedBaseUrl]
        ELSE
        LET headers == buildHeaders(route, originalHeaders)
            body == SetField(buildRequestBody(request, route.config), "stream", FALSE)
            url == buildUrl(route.config, EndpointMessages)
            timeout == config.gateway.timeout * 1000
            connectionError(m) ==
                RouterError(<<"Connection error: ", m>>, 502, "connection_error")
            data == JSONParse(upstream.text)
            result ==
                IF upstream.kind = "abort"
                    THEN RouterError(<<"Request timed out after ", ToString(timeout \div 1000), "s">>,
                                     504, "timeout_error")
                ELSE IF upstream.kind = "network" THEN connectionError(upstream.message)
                ELSE IF upstream.bodyFails THEN connectionError("terminated")
                ELSE IF ~ResponseOk(upstream.status)
                    THEN connectionError(<<"Upstream API error (", route.config.provider, "): ",
                                           upstreamErrorMessage(upstream.text)>>)
                ELSE IF ~data.valid THEN connectionError("Unexpected token")
                ELSE IF data.isNull
                    THEN IF config.gateway.enable_logging
                            THEN connectionError("Cannot read properties of null")
                            ELSE [ok |-> TRUE, isNull |-> TRUE]
                ELSE [ok |-> TRUE, isNull |-> FALSE, data |-> data.value]
        IN  [route |-> route,
             outbound |-> [issued |-> TRUE, method |-> "POST", url |-> url,
                           headers |-> headers, body |-> body],
             result |-> result]

\* ModelRouter.forwardRequest: the request sent upstream and what the call
\* returns (ok = TRUE) or throws (ok = FALSE)
forwardRequest(request, originalHeaders, upstream) ==
    LET route == resolveRoute(request.model)
    IN  IF ~route.ok THEN [route |-> route, outbound |-> NotIssued, result |-> route]
        ELSE IF "base_url" \notin DOMAIN route.config
            THEN [route |-> route, outbound |-> NotIssued, result |-> UndefinedBaseUrl]
        ELSE
        LET headers == buildHeaders(route, originalHeaders)
            body == SetField(buildRequestBody(request, route.config), "stream", FALSE)
            url == buildUrl(route.config, EndpointMessages)
            timeout == config.gateway.timeout * 1000
            connectionError(m) ==
                RouterError(<<"Connection error: ", m>>, 502, "connection_error")
            data == JSONParse(upstream.text)
            result ==
                IF upstream.kind = "abort"
                    THEN RouterError(<<"Request timed out after ", ToString(timeout \div 1000), "s">>,
                                     504, "timeout_error")
                ELSE IF upstream.kind = "network" THEN connectionError(upstream.message)
                ELSE IF upstream.bodyFails THEN connectionError("terminated")
                ELSE IF ~ResponseOk(upstream.status)
                    THEN RouterError(<<"Upstream API error (", route.config.provider, "): ",
                                       upstreamErrorMessage(upstream.text)>>,
                                     upstream.status, "api_error")
                ELSE IF ~data.valid THEN connectionError("Unexpected token")
                ELSE IF data.isNull
                    THEN IF config.gateway.enable_logging
                            THEN connectionError("Cannot read properties of null")
                            ELSE [ok |-> TRUE, isNull |-> TRUE]
                ELSE [ok |-> TRUE, isNull |-> FALSE, data |-> data.value]
        IN  [route |-> route,
             outbound |-> [issued |-> TRUE, method |-> "POST", url |-> url,
                           headers |-> headers, body |-> body],
             result |-> result]

----------------------------------------------------------------------------
(* Forwarder: streaming                                                     *)

MaxChunkLen == 2    \* most characters one read of the upstream body delivers

Whitespace == {" ", "\n"}

\* s.trim() is not empty
HasContent(s) == \E i \in 1..Len(s) : s[i] \notin Whitespace

\* buffer.indexOf('\n\n'), 0 when there is none (positions count from 1)
IndexOfDelimiter(buffer) ==
    LET hits == { i \in 1..(Len(buffer) - 1) : buffer[i] = "\n" /\ buffer[i + 1] = "\n" }
    IN  IF hits = {} THEN 0 ELSE CHOOSE i \in hits : \A j \in hits : i <= j

DataEvent(text) == [kind |-> "data", text |-> text]

\* `event: error\ndata: ${JSON.stringify(errorEvent)}\n\n`
ErrorEvent(errorType, errorMessage) ==
    [kind |-> "error",
     payload |-> [type |-> "error", error |-> [type |-> errorType, message |-> errorMessage]]]

\* the inner loop of forwardStream: the events cut from the buffer, in
\* order, and what stays in the buffer
RECURSIVE DrainBuffer(_)
DrainBuffer(buffer) ==
    LET idx == IndexOfDelimiter(buffer)
    IN  IF idx = 0 THEN [events |-> <<>>, buffer |-> buffer]
        ELSE LET event == SubSeq(buffer, 1, idx - 1)
                 rest == DrainBuffer(SubSeq(buffer, idx + 2, Len(buffer)))
             IN  [events |-> (IF HasContent(event)
                                THEN <<DataEvent(event \o <<"\n", "\n">>)>> ELSE <<>>)
                             \o rest.events,
                  buffer |-> rest.buffer]

----------------------------------------------------------------------------
(* Inputs                                                                   *)

\* names a caller may request: every registered name, every alias, and two
\* names that are nothing
RequestNames == DOMAIN config.models \cup DOMAIN config.aliases \cup {"gone", "nonexistent"}

EndpointComplete == <<"/","v","1","/","c","o","m","p","l","e","t","e">>
Endpoints == {EndpointMessages, EndpointComplete}

MaxTokensInputs == {0, 1, 100, 4096, 4097, 8192, 8193, 32768, 999999}

\* headers of an inbound HTTP request
InboundHeaderValues ==
    [x \in {"anthropic-beta", "anthropic-version", "authorization", "x-api-key", "cache-control"} |->
        CASE x = "anthropic-beta" -> {"", "tools-2024", "batch-2024"}
          [] x = "anthropic-version" -> {"2023-01-01"}
          [] x = "authorization" -> {"Bearer client-token"}
          [] x = "x-api-key" -> {"client-key"}
          [] OTHER -> {"no-cache"}]

InboundHeaders ==
    UNION { { h \in [S -> UNION { InboundHeaderValues[x] : x \in S }] :
                \A x \in S : h[x] \in InboundHeaderValues[x] } :
            S \in SUBSET DOMAIN InboundHeaderValues }

\* inbound header sets a request is compared with
AlternativeHeaders ==
    { h \in InboundHeaders :
        DOMAIN h \in {{}, {"anthropic-beta"}, {"anthropic-version"},
                      {"authorization", "x-api-key", "cache-control"},
                      DOMAIN InboundHeaderValues} }

\* bodies of a request that names its model
Requests(names, maxTokens) ==
    { SetField(r, "model", n) : n \in names,
        r \in { [messages |-> "hello"], [messages |-> "hello", stream |-> TRUE] }
             \cup { [messages |-> "hello", max_tokens |-> t] : t \in maxTokens } }

\* no forwardRequest / forwardStream call has been made
IdleCall == [pc |-> "idle"]

\* no POST /v1/messages request is being handled
NoResponse == [handler |-> "none"]

----------------------------------------------------------------------------
(* Specification of the registry and the route resolver                     *)

StartUp ==
    /\ \E parsed \in ParsedConfigs : config = mergeConfig(parsed)
    /\ apiKeys = loadApiKeys(config, env)
    /\ op = [kind |-> "none"]
    /\ call = IdleCall
    /\ res = NoResponse

Init ==
    /\ env \in Environments
    /\ StartUp

CallResolveModelName ==
    \E n \in RequestNames :
        /\ op' = [kind |-> "resolveModelName", name |-> n, result |-> resolveModelName(n)]
        /\ UNCHANGED <<env, config, apiKeys, call, res>>

CallGetModel ==
    \E n \in RequestNames :
        /\ op' = [kind |-> "getModel", name |-> n, result |-> getModel(n)]
        /\ UNCHANGED <<env, config, apiKeys, call, res>>

\* variant of CallResolveRoute: the credential found for a name is stored
\* under the requested name as well
CallResolveRoute_CachesKey ==
    \E n \in RequestNames :
        LET route == resolveRoute(n)
        IN  /\ op' = [kind |-> "resolveRoute", modelName |-> n, result |-> route]
            /\ apiKeys' = IF route.ok THEN SetField(apiKeys, n, route.apiKey) ELSE apiKeys
            /\ UNCHANGED <<env, config, call, res>>

CallResolveRoute ==
    \E n \in RequestNames :
        /\ op' = [kind |-> "resolveRoute", modelName |-> n, result |-> resolveRoute(n)]
        /\ UNCHANGED <<env, config, apiKeys, call, res>>

\* ConfigManager.listModels: Object.entries(models) in order, and per
\* model the display name, the provider and apiKeys.has(name)
listModels ==
    [order |-> config.modelOrder,
     result |-> [name \in DOMAIN config.models |->
                   [displayName |-> config.models[name].display_name,
                    provider |-> config.models[name].provider,
                    available |-> name \in DOMAIN apiKeys]]]

\* GET /health: res.json with a models object, 'available' where
\* getApiKey(name) is truthy
health ==
    [statusCode |-> 200,
     body |-> [status |-> "healthy", version |-> "1.0.0",
               default_model |-> config.default_model,
               models |-> [name \in DOMAIN config.models |->
                             IF getApiKey(name).found THEN "available" ELSE "no_api_key"]]]

\* GET /v1/models: res.json with one entry per Object.entries(models)
v1Models ==
    [statusCode |-> 200,
     body |-> [object |-> "list",
               data |-> [k \in 1..Len(config.modelOrder) |->
                           LET id == config.modelOrder[k]
                               model == config.models[id]
                           IN  [id |-> id, object |-> "model",
                                display_name |-> model.display_name,
                                provider |-> model.provider,
                                model_id |-> model.model_id,
                                available |-> getApiKey(id).found]]]]

CallListModels ==
    /\ op' = [kind |-> "listModels", result |-> listModels]
    /\ UNCHANGED <<env, config, apiKeys, call, res>>

GetHealth ==
    /\ op' = [kind |-> "health", result |-> health]
    /\ UNCHANGED <<env, config, apiKeys, call, res>>

GetV1Models ==
    /\ op' = [kind |-> "v1Models", result |-> v1Models]
    /\ UNCHANGED <<env, config, apiKeys, call, res>>

Next ==
    \/ CallResolveModelName
    \/ CallGetModel
    \/ CallResolveRoute
    \/ CallListModels
    \/ GetHealth
    \/ GetV1Models

Spec == Init /\ [][Next]_vars

----------------------------------------------------------------------------
(* Specification of the transformer and the forwarder: one call is followed *)
(* from the constructed router to its end                                   *)

ForwardEnvironments ==
    { Restrict(SecretOf, S) : S \in {EnvVars, {"KIMI_API_KEY"}, {}} }

InitForward ==
    /\ env \in ForwardEnvironments
    /\ StartUp

\* inputs of the forwarding calls
ForwardNames ==
    {"deepseek", "kimi", "ds", "deepseek-chat", "moonshot", "claude", "sonnet", "ms", "old",
     "nonexistent"}

Untouched == op.kind = "none" /\ call.pc = "idle" /\ res.handler = "none"

CallBuildHeaders ==
    /\ Untouched
    /\ \E n \in ForwardNames, h \in InboundHeaders :
        /\ resolveRoute(n).ok
        /\ op' = [kind |-> "buildHeaders", route |-> resolveRoute(n), originalHeaders |-> h,
                  result |-> buildHeaders(resolveRoute(n), h)]
    /\ UNCHANGED <<env, config, apiKeys, call, res>>

CallBuildRequestBody ==
    /\ Untouched
    /\ \E k \in DOMAIN config.models, r \in Requests({"ds", "claude"}, MaxTokensInputs) :
        op' = [kind |-> "buildRequestBody", request |-> r, modelConfig |-> config.models[k],
               result |-> buildRequestBody(r, config.models[k])]
    /\ UNCHANGED <<env, config, apiKeys, call, res>>

CallBuildUrl ==
    /\ Untouched
    /\ \E k \in DOMAIN config.models, e \in Endpoints :
        op' = [kind |-> "buildUrl", modelConfig |-> config.models[k], endpoint |-> e,
               result |-> buildUrl(config.models[k], e)]
    /\ UNCHANGED <<env, config, apiKeys, call, res>>

ForwardRequests == Requests(ForwardNames, {999999})

ForwardHeaders ==
    { h \in InboundHeaders :
        /\ DOMAIN h \in {{}, {"anthropic-beta"}, {"authorization", "x-api-key"},
                         {"anthropic-beta", "anthropic-version", "cache-control"}}
        /\ "anthropic-beta" \in DOMAIN h => h["anthropic-beta"] # "batch-2024" }

\* what the upstream does with a streaming call: the status of its
\* response, the text of an error body, the text of the event stream, and
\* whether the stream ends by a close or by a transport failure
ForwardScripts ==
    { [status |-> 200, hasBody |-> TRUE, text |-> <<"a", "\n", "\n">>, ending |-> "close"],
      [status |-> 200, hasBody |-> TRUE, text |-> <<"a">>, ending |-> "reset"],
      [status |-> 200, hasBody |-> FALSE, text |-> <<>>, ending |-> "close"],
      [status |-> 500, hasBody |-> TRUE, text |-> <<>>, ending |-> "close"] }

StreamErrorTexts == {"{\"error\":{\"message\":\"Overloaded\"}}", "<html>Bad Gateway</html>"}

\* forwardRequest, from the call to its return or throw
CallForwardRequestWith(requests, headerSets, outcomes) ==
    /\ Untouched
    /\ \E r \in requests, h \in headerSets, u \in outcomes :
        LET out == forwardRequest(r, originalHeadersOf(h), u)
        IN  call' = [pc |-> IF out.result.ok THEN "returned" ELSE "thrown",
                     fn |-> "forwardRequest", request |-> r, reqHeaders |-> h,
                     outbound |-> out.outbound, result |-> out.result, route |-> out.route,
                     upstream |-> u,
                     requestAfter |-> IF out.outbound.issued
                                        THEN requestAfter(r, out.outbound.body) ELSE r]
    /\ UNCHANGED <<env, config, apiKeys, op, res>>

CallForwardRequest == CallForwardRequestWith(ForwardRequests, ForwardHeaders, UpstreamOutcomes)

\* forwardStream: the request it sends upstream
streamOutbound(route, request, originalHeaders) ==
    [issued |-> TRUE, method |-> "POST",
     url |-> buildUrl(route.config, EndpointMessages),
     headers |-> SetField(buildHeaders(route, originalHeaders), "Accept", "text/event-stream"),
     body |-> SetField(buildRequestBody(request, route.config), "stream", TRUE)]

\* what a caught exception looks like to the catch block of forwardStream
AbortError == [name |-> "AbortError", message |-> <<"This operation was aborted">>]
FetchFailed == [name |-> "TypeError", message |-> <<"fetch failed">>]
Terminated == [name |-> "TypeError", message |-> <<"terminated">>]
NoResponseBody == [name |-> "RouterError", message |-> <<"No response body">>]
NoFailure == [name |-> "none", message |-> <<>>]

\* the generator runs only while its consumer awaits next(): a consumer
\* that writes each event out has written every event yielded so far
Consumed ==
    IF res.handler = "none" THEN TRUE ELSE Len(res.written) = Len(call.yielded)

\* forwardStream up to the point where fetch has been issued; a failure of
\* resolveRoute is thrown to the consumer of the generator
startForwardStream(r, h, script) ==
    LET route == resolveRoute(r.model)
        originalHeaders == originalHeadersOf(h)
        failed == ~route.ok \/ "base_url" \notin DOMAIN route.config
    IN  IF failed
          THEN [pc |-> "thrown", fn |-> "forwardStream", request |-> r, reqHeaders |-> h,
                outbound |-> NotIssued,
                result |-> IF route.ok THEN UndefinedBaseUrl ELSE route, route |-> route,
                timer |-> "none", upstream |-> script,
                buffer |-> <<>>, yielded |-> <<>>,
                received |-> <<>>, reads |-> 0, ending |-> "thrown",
                failure |-> NoFailure, status |-> 0, fetches |-> 0,
                requestAfter |-> r]
          ELSE [pc |-> "fetching", fn |-> "forwardStream", request |-> r, reqHeaders |-> h,
                outbound |-> streamOutbound(route, r, originalHeaders),
                result |-> [ok |-> TRUE], route |-> route,
                timer |-> "armed", upstream |-> script,
                buffer |-> <<>>, yielded |-> <<>>,
                received |-> <<>>, reads |-> 0, ending |-> "none",
                failure |-> NoFailure, status |-> 0, fetches |-> 1,
                requestAfter |-> requestAfter(r, streamOutbound(route, r, originalHeaders).body)]

\* a direct call of forwardStream
CallForwardStream(requests, headerSets, scripts) ==
    /\ Untouched
    /\ \E r \in requests, h \in headerSets, script \in scripts :
        call' = startForwardStream(r, h, script)
    /\ UNCHANGED <<env, config, apiKeys, op, res>>

\* the catch block of forwardStream: the type and the message of its event
catchErrorType(error) ==
    IF error.name = "AbortError" THEN "timeout_error" ELSE "internal_error"

catchErrorMessage(error, timeout) ==
    IF error.name = "AbortError"
      THEN <<"Request timed out after ", ToString(timeout \div 1000), "s">>
      ELSE error.message

\* variant of StreamCatch: after the error event the generator falls
\* through to the flush of the buffer
StreamCatch_ThenFlush(c, error) ==
    LET timeout == config.gateway.timeout * 1000
    IN  call' = [c EXCEPT
                   !.pc = "done", !.timer = "cleared",
                   !.ending = "caught", !.failure = error,
                   !.yielded = @ \o <<ErrorEvent(catchErrorType(error),
                                                catchErrorMessage(error, timeout))>>
                                 \o (IF HasContent(c.buffer)
                                       THEN <<DataEvent(c.buffer \o <<"\n", "\n">>)>>
                                       ELSE <<>>)]

\* the catch block of forwardStream: one error event, then the end
StreamCatch(c, error) ==
    LET timeout == config.gateway.timeout * 1000
    IN  call' = [c EXCEPT
                   !.pc = "done", !.timer = "cleared",
                   !.ending = "caught", !.failure = error,
                   !.yielded = @ \o <<ErrorEvent(catchErrorType(error),
                                                catchErrorMessage(error, timeout))>>]

\* the timer fires while fetch is pending: controller.abort(), AbortError
StreamFetchTimeout ==
    /\ call.pc = "fetching"
    /\ Consumed
    /\ call.timer = "armed"
    /\ StreamCatch(call, AbortError)
    /\ UNCHANGED <<env, config, apiKeys, op, res>>

\* fetch rejects with a transport failure
StreamFetchFails ==
    /\ call.pc = "fetching"
    /\ Consumed
    /\ StreamCatch(call, FetchFailed)
    /\ UNCHANGED <<env, config, apiKeys, op, res>>

\* variant of StreamResponse: the non-ok branch without its `return`
StreamResponse_NoReturn ==
    /\ call.pc = "fetching"
    /\ Consumed
    /\ IF ~ResponseOk(call.upstream.status)
         THEN \E errorText \in StreamErrorTexts :
                call' = [call EXCEPT !.pc = "reading", !.timer = "cleared", !.ending = "status",
                           !.status = call.upstream.status,
                           !.yielded = @ \o <<ErrorEvent("api_error",
                                                        <<upstreamErrorMessage(errorText)>>)>>]
         ELSE IF ~call.upstream.hasBody
            THEN StreamCatch([call EXCEPT !.status = call.upstream.status], NoResponseBody)
            ELSE call' = [call EXCEPT !.pc = "reading", !.timer = "cleared",
                                      !.status = call.upstream.status]
    /\ UNCHANGED <<env, config, apiKeys, op, res>>

\* the response headers arrive: the timer is cleared; a non-2xx status is
\* turned into one error event, a response without body throws
StreamResponse ==
    /\ call.pc = "fetching"
    /\ Consumed
    /\ IF ~ResponseOk(call.upstream.status)
         THEN \E errorText \in StreamErrorTexts :
                call' = [call EXCEPT !.pc = "done", !.timer = "cleared", !.ending = "status",
                           !.status = call.upstream.status,
                           !.yielded = @ \o <<ErrorEvent("api_error",
                                                        <<upstreamErrorMessage(errorText)>>)>>]
         ELSE IF ~call.upstream.hasBody
            THEN StreamCatch([call EXCEPT !.status = call.upstream.status], NoResponseBody)
            ELSE call' = [call EXCEPT !.pc = "reading", !.timer = "cleared",
                                      !.status = call.upstream.status]
    /\ UNCHANGED <<env, config, apiKeys, op, res>>

\* reading the error body of a non-2xx response fails
StreamErrorBodyFails ==
    /\ call.pc = "fetching"
    /\ Consumed
    /\ ~ResponseOk(call.upstream.status)
    /\ StreamCatch([call EXCEPT !.status = call.upstream.status], Terminated)
    /\ UNCHANGED <<env, config, apiKeys, op, res>>

\* variant of StreamRead: `buffer = chunk` where the code has `buffer += chunk`
StreamRead_ChunkOnly ==
    /\ call.pc = "reading"
    /\ Consumed
    /\ \E n \in 1..MaxChunkLen :
        /\ n <= Len(call.upstream.text)
        /\ LET chunk == SubSeq(call.upstream.text, 1, n)
               drained == DrainBuffer(chunk)
           IN  call' = [call EXCEPT
                          !.upstream.text = SubSeq(@, n + 1, Len(@)),
                          !.received = @ \o chunk,
                          !.reads = @ + 1,
                          !.buffer = drained.buffer,
                          !.yielded = @ \o drained.events]
    /\ UNCHANGED <<env, config, apiKeys, op, res>>

\* one reader.read() that delivers a chunk, and the events it completes
StreamRead ==
    /\ call.pc = "reading"
    /\ Consumed
    /\ \E n \in 1..MaxChunkLen :
        /\ n <= Len(call.upstream.text)
        /\ LET chunk == SubSeq(call.upstream.text, 1, n)
               drained == DrainBuffer(call.buffer \o chunk)
           IN  call' = [call EXCEPT
                          !.upstream.text = SubSeq(@, n + 1, Len(@)),
                          !.received = @ \o chunk,
                          !.reads = @ + 1,
                          !.buffer = drained.buffer,
                          !.yielded = @ \o drained.events]
    /\ UNCHANGED <<env, config, apiKeys, op, res>>

\* variant of flushBuffer: `if (buffer)` where the code has `if (buffer.trim())`
flushBuffer_Untrimmed(buffer) ==
    IF buffer # <<>> THEN <<DataEvent(buffer \o <<"\n", "\n">>)>> ELSE <<>>

\* after the read loop: what is left in the buffer is one more event,
\* unless it is only white space
flushBuffer(buffer) ==
    IF HasContent(buffer) THEN <<DataEvent(buffer \o <<"\n", "\n">>)>> ELSE <<>>

\* reader.read() reports done: what is left in the buffer is yielded
StreamEnd ==
    /\ call.pc = "reading"
    /\ Consumed
    /\ Len(call.upstream.text) = 0
    /\ call.upstream.ending = "close"
    /\ call' = [call EXCEPT
                   !.pc = "done", !.ending = "closed",
                   !.yielded = @ \o flushBuffer(call.buffer)]
    /\ UNCHANGED <<env, config, apiKeys, op, res>>

\* variant of StreamReadFails: after a failed read the request is issued
\* once more and the stream resumed
StreamReadFails_Retry ==
    /\ call.pc = "reading"
    /\ Consumed
    /\ Len(call.upstream.text) = 0
    /\ call.upstream.ending = "reset"
    /\ IF call.fetches < 2
         THEN call' = [call EXCEPT !.pc = "fetching", !.timer = "armed", !.fetches = @ + 1]
         ELSE StreamCatch(call, Terminated)
    /\ UNCHANGED <<env, config, apiKeys, op, res>>

\* reader.read() rejects: the transport failed in the middle of the body
StreamReadFails ==
    /\ call.pc = "reading"
    /\ Consumed
    /\ Len(call.upstream.text) = 0
    /\ call.upstream.ending = "reset"
    /\ StreamCatch(call, Terminated)
    /\ UNCHANGED <<env, config, apiKeys, op, res>>

StreamSteps ==
    \/ StreamFetchTimeout
    \/ StreamFetchFails
    \/ StreamResponse
    \/ StreamErrorBodyFails
    \/ StreamRead
    \/ StreamEnd
    \/ StreamReadFails

NextForward ==
    \/ CallBuildHeaders
    \/ CallBuildRequestBody
    \/ CallBuildUrl
    \/ CallForwardRequest
    \/ CallForwardStream(ForwardRequests, ForwardHeaders, ForwardScripts)
    \/ StreamSteps

SpecForward == InitForward /\ [][NextForward]_vars

----------------------------------------------------------------------------
(* Specification of the upstream exchange: the default registry with every  *)
(* credential present, a gateway timeout that the config file may override, *)
(* and an upstream that sends any short text in any split                   *)

MaxTextLen == 6     \* most characters an upstream event stream holds

StreamAlphabet == {"a", " ", "\n"}

StreamTexts == UNION { [1..k -> StreamAlphabet] : k \in 0..MaxTextLen }

\* a body that closes, that breaks off, or that stalls after its last
\* character; a response without body; a refused call
StreamScripts ==
    { [status |-> 200, hasBody |-> TRUE, text |-> t, ending |-> e] :
        t \in StreamTexts, e \in {"close", "reset", "stall"} }
    \cup { [status |-> 200, hasBody |-> FALSE, text |-> <<>>, ending |-> "close"] }
    \cup { [status |-> st, hasBody |-> TRUE, text |-> <<>>, ending |-> "close"] : st \in {429, 500} }

StreamRequests == { [model |-> "deepseek", messages |-> "hello", stream |-> TRUE] }

\* config files that add no model and may set gateway.timeout
GatewayParsedConfigs ==
    LET plain == [modelOrder |-> <<>>,
                  models |-> Restrict(UserModelEntries, {}),
                  aliases |-> Restrict(UserAliasEntries, {})]
    IN  { plain, SetField(plain, "gateway", [timeout |-> 30]) }

InitStream ==
    /\ env = SecretOf
    /\ \E parsed \in GatewayParsedConfigs : config = mergeConfig(parsed)
    /\ apiKeys = loadApiKeys(config, env)
    /\ op = [kind |-> "none"]
    /\ call = IdleCall
    /\ res = NoResponse

NextStream ==
    \/ CallForwardRequest
    \/ CallForwardStream(StreamRequests, {<<>>}, StreamScripts)
    \/ StreamSteps

SpecStream == InitStream /\ [][NextStream]_vars

----------------------------------------------------------------------------
(* Specification of the loading of the config file: the file is missing,    *)
(* empty, unparsable, or parses to an object with some of the top-level     *)
(* keys, whose one model entry has some of its fields                       *)

\* fields of a model entry that a file may leave out
OptionalFields == {"model_id", "base_url", "api_key_env"}

\* a new model or a redefinition of a default model, without some fields
PartialEntries ==
    { [name |-> n,
       entry |-> Restrict(UserModelEntries[n], DOMAIN UserModelEntries[n] \ missing)] :
        n \in {"claude", "deepseek"}, missing \in SUBSET OptionalFields }

\* yaml.load of a file that parses to an object
PartialParsedConfigs ==
    LET withModels == { <<>> } \cup
            { [modelOrder |-> <<pe.name>>, models |-> [x \in {pe.name} |-> pe.entry]] :
                pe \in PartialEntries }
        withDefault(p) == { p, SetField(p, "default_model", "kimi") }
        withGateway(p) == { p, SetField(p, "gateway", [timeout |-> 30]) }
        withAliases(p) == { p, SetField(p, "aliases", [x \in {"sonnet"} |-> "claude"]) }
    IN  UNION { UNION { UNION { withAliases(c) : c \in withGateway(b) } : b \in withDefault(a) } :
                a \in withModels }

ConfigFiles ==
    { [kind |-> "missing"], [kind |-> "empty"], [kind |-> "unparsable"] }
    \cup { [kind |-> "parsed", parsed |-> p] : p \in PartialParsedConfigs }

\* ConfigManager.loadConfig: no file found, or a file whose parsing or
\* merging throws (yaml.load of an empty file is undefined, and
\* mergeConfig(undefined) throws), gives DEFAULT_CONFIG
loadConfig(file) ==
    IF file.kind = "parsed" THEN mergeConfig(file.parsed) ELSE DEFAULT_CONFIG

InitConfig ==
    /\ env = SecretOf
    /\ \E file \in ConfigFiles : config = loadConfig(file)
    /\ apiKeys = loadApiKeys(config, env)
    /\ op = [kind |-> "none"]
    /\ call = IdleCall
    /\ res = NoResponse

ConfigRequests ==
    { [model |-> n, messages |-> "hello"] : n \in {"claude", "sonnet", "deepseek", "kimi"} }

ConfigOutcomes ==
    { [kind |-> "abort"],
      [kind |-> "response", status |-> 200, bodyFails |-> FALSE,
       text |-> "{\"id\":\"msg_1\",\"usage\":{\"input_tokens\":3,\"output_tokens\":5}}"] }

NextConfig ==
    \/ CallForwardRequestWith(ConfigRequests, {<<>>}, ConfigOutcomes)
    \/ CallForwardStream({ SetField(r, "stream", TRUE) : r \in ConfigRequests }, {<<>>},
                         ForwardScripts)
    \/ StreamSteps

SpecConfig == InitConfig /\ [][NextConfig]_vars

----------------------------------------------------------------------------
(* HTTP server: POST /v1/messages, in the TypeScript source (src/server.ts) *)
(* and in the compiled build (dist/server.js), which differ                 *)

Builds == {"src", "dist"}

\* the Express response before the handler has touched it
FreshResponse(build, inbound, body, reqHeaders) ==
    [handler |-> "postMessages", build |-> build, pc |-> "running",
     inbound |-> inbound, body |-> body, reqHeaders |-> reqHeaders,
     statusCode |-> 200, headers |-> <<>>, headersSent |-> FALSE,
     written |-> <<>>, json |-> [sent |-> FALSE], ended |-> FALSE, completions |-> 0]

\* res.setHeader, res.flushHeaders, res.write, res.end, res.status
resSetHeader(r, name, value) == [r EXCEPT !.headers = SetField(@, name, value)]

resFlushHeaders(r) == [r EXCEPT !.headersSent = TRUE]

resWrite(r, chunk) == [r EXCEPT !.headersSent = TRUE, !.written = @ \o <<chunk>>]

resEnd(r) ==
    [r EXCEPT !.headersSent = TRUE, !.ended = TRUE, !.pc = "completed",
              !.completions = @ + 1]

resStatus(r, code) == [r EXCEPT !.statusCode = code]

\* res.json: the Content-Type is set unless one is set already, the body
\* is sent and the response is complete
resJson(r, obj) ==
    [r EXCEPT !.headers = IF "Content-Type" \in DOMAIN @ THEN @
                          ELSE SetField(@, "Content-Type", "application/json"),
              !.json = [sent |-> TRUE, body |-> obj],
              !.headersSent = TRUE, !.ended = TRUE, !.pc = "completed",
              !.completions = @ + 1]

\* RouterError.toErrorResponse
toErrorResponse(error) ==
    [type |-> "error", error |-> [type |-> error.errorType, message |-> error.message]]

\* variant of handlerCatch: the compiled build without the `return` that
\* follows res.end() in its res.headersSent branch
handlerCatch_NoReturn(r, error) ==
    LET sent == IF r.build = "dist" /\ r.headersSent
                  THEN resEnd(resWrite(r, ErrorEvent("stream_error", error.message)))
                  ELSE r
    IN  IF "errorType" \in DOMAIN error
          THEN resJson(resStatus(sent, error.statusCode), toErrorResponse(error))
          ELSE resJson(resStatus(sent, 500),
                       [type |-> "error",
                        error |-> [type |-> "internal_error", message |-> error.message]])

\* variant of handlerCatch: the compiled build without its test of
\* res.headersSent
handlerCatch_NoHeadersSentTest(r, error) ==
    IF "errorType" \in DOMAIN error
      THEN resJson(resStatus(r, error.statusCode), toErrorResponse(error))
      ELSE resJson(resStatus(r, 500),
                   [type |-> "error",
                    error |-> [type |-> "internal_error", message |-> error.message]])

\* the catch block of the handler; only the compiled build tests
\* res.headersSent and then reports the failure as an SSE event
handlerCatch(r, error) ==
    IF r.build = "dist" /\ r.headersSent
      THEN resEnd(resWrite(r, ErrorEvent("stream_error", error.message)))
    ELSE IF "errorType" \in DOMAIN error
      THEN resJson(resStatus(r, error.statusCode), toErrorResponse(error))
      ELSE resJson(resStatus(r, 500),
                   [type |-> "error",
                    error |-> [type |-> "internal_error", message |-> error.message]])

\* the SSE headers of a streaming response; the compiled build adds
\* X-Accel-Buffering and sends the headers at once
sseHeaders(r, modelRouter) ==
    LET h1 == resSetHeader(r, "Content-Type", "text/event-stream")
        h2 == resSetHeader(h1, "Cache-Control", "no-cache")
        h3 == resSetHeader(h2, "Connection", "keep-alive")
        h4 == IF r.build = "dist" THEN resSetHeader(h3, "X-Accel-Buffering", "no") ELSE h3
        h5 == resSetHeader(h4, "X-Model-Router", modelRouter)
    IN  IF r.build = "dist" THEN resFlushHeaders(h5) ELSE h5

\* the value of X-Model-Router: body.model in the source, the display name
\* of the model in the compiled build
modelDisplayName(build, body) ==
    LET modelConfig == getModel(body.model)
    IN  IF build = "dist" /\ modelConfig.found /\ modelConfig.config.display_name # ""
          THEN modelConfig.config.display_name
          ELSE body.model

\* variant of withDefaultModel: the built-in default in place of the
\* configured one
withDefaultModel_BuiltIn(body) ==
    IF "model" \notin DOMAIN body \/ body.model = ""
      THEN SetField(body, "model", DEFAULT_CONFIG.default_model)
      ELSE body

\* `if (!body.model) body.model = config.default_model`
withDefaultModel(body) ==
    IF "model" \notin DOMAIN body \/ body.model = ""
      THEN SetField(body, "model", config.default_model)
      ELSE body


\* bodies, headers and upstreams of the requests that are followed
ServerNames == {"deepseek", "kimi", "ds", "nonexistent"}

ServerRequests ==
    Requests(ServerNames, {})
    \cup { [messages |-> "hello"], [messages |-> "hello", stream |-> TRUE] }

ServerHeaders ==
    { h \in InboundHeaders :
        /\ DOMAIN h \in {{}, {"anthropic-beta", "x-api-key"}}
        /\ "anthropic-beta" \in DOMAIN h => h["anthropic-beta"] = "tools-2024" }

ServerScripts ==
    ForwardScripts
    \cup { [status |-> 200, hasBody |-> TRUE, ending |-> "close",
            text |-> <<"a", "\n", "\n", "a", "\n", "\n">>],
           [status |-> 200, hasBody |-> TRUE, ending |-> "reset",
            text |-> <<"a", "\n", "\n", " ", "a">>] }

\* config files that add no model and may set default_model
DefaultModelParsedConfigs ==
    LET plain == [modelOrder |-> <<>>,
                  models |-> Restrict(UserModelEntries, {}),
                  aliases |-> Restrict(UserAliasEntries, {})]
    IN  { plain, SetField(plain, "default_model", "kimi") }

InitServer ==
    /\ env \in ForwardEnvironments
    /\ \E parsed \in DefaultModelParsedConfigs : config = mergeConfig(parsed)
    /\ apiKeys = loadApiKeys(config, env)
    /\ op = [kind |-> "none"]
    /\ call = IdleCall
    /\ res = NoResponse

\* the handler of POST /v1/messages up to its first await that the
\* upstream decides: a streaming request has its headers set and its
\* generator started, any other request is forwarded and answered
PostMessages ==
    /\ call.pc = "idle"
    /\ res.handler = "none"
    /\ \E build \in Builds, r \in ServerRequests, h \in ServerHeaders :
        LET body == withDefaultModel(r)
            originalHeaders == originalHeadersOf(h)
            fresh == FreshResponse(build, r, body, h)
        IN  IF "stream" \in DOMAIN body /\ body.stream
              THEN \E script \in ServerScripts :
                     /\ res' = sseHeaders(fresh, modelDisplayName(build, body))
                     /\ call' = startForwardStream(body, h, script)
              ELSE \E u \in UpstreamOutcomes :
                     LET out == forwardRequest(body, originalHeaders, u)
                         named == IF config.gateway.enable_logging
                                    THEN resSetHeader(fresh, "X-Model-Router",
                                                      modelDisplayName(build, body))
                                    ELSE fresh
                     IN  /\ call' = [pc |-> IF out.result.ok THEN "returned" ELSE "thrown",
                                     fn |-> "forwardRequest", request |-> body, reqHeaders |-> h,
                                     outbound |-> out.outbound, result |-> out.result,
                                     route |-> out.route, upstream |-> u,
                                     requestAfter |-> IF out.outbound.issued
                                                        THEN requestAfter(body, out.outbound.body)
                                                        ELSE body]
                         /\ res' = IF out.result.ok
                                     THEN resJson(named, IF out.result.isNull THEN "null"
                                                         ELSE out.result.data)
                                     ELSE handlerCatch(fresh, out.result)
    /\ UNCHANGED <<env, config, apiKeys, op>>

\* the body of the for-await loop: res.write of the event just yielded
HandlerWrite ==
    /\ res.handler = "postMessages"
    /\ res.pc = "running"
    /\ Len(res.written) < Len(call.yielded)
    /\ res' = resWrite(res, call.yielded[Len(res.written) + 1])
    /\ UNCHANGED <<env, config, apiKeys, op, call>>

\* the generator has ended: res.end()
HandlerEnd ==
    /\ res.handler = "postMessages"
    /\ res.pc = "running"
    /\ call.pc = "done"
    /\ Len(res.written) = Len(call.yielded)
    /\ res' = resEnd(res)
    /\ UNCHANGED <<env, config, apiKeys, op, call>>

\* the generator has thrown at its first next(): the catch block
HandlerCatch ==
    /\ res.handler = "postMessages"
    /\ res.pc = "running"
    /\ call.pc = "thrown"
    /\ res' = handlerCatch(res, call.result)
    /\ UNCHANGED <<env, config, apiKeys, op, call>>

NextServer ==
    \/ PostMessages
    \/ HandlerWrite
    \/ HandlerEnd
    \/ HandlerCatch
    \/ StreamSteps

SpecServer == InitServer /\ [][NextServer]_vars

\* config files for the handler's unexpected-exception path: as for
\* SpecServer, and a file that redefines deepseek without a base_url, on
\* which buildUrl throws a TypeError
HandlerParsedConfigs ==
    DefaultModelParsedConfigs
    \cup { [modelOrder |-> <<"deepseek">>,
            models |-> [x \in {"deepseek"} |->
                          Restrict(UserModelEntries["deepseek"],
                                   DOMAIN UserModelEntries["deepseek"] \ {"base_url"})]] }

InitHandler ==
    /\ env \in ForwardEnvironments
    /\ \E parsed \in HandlerParsedConfigs : config = mergeConfig(parsed)
    /\ apiKeys = loadApiKeys(config, env)
    /\ op = [kind |-> "none"]
    /\ call = IdleCall
    /\ res = NoResponse

SpecHandler == InitHandler /\ [][NextServer]_vars

----------------------------------------------------------------------------
(* Specification of concurrent requests: while one POST /v1/messages        *)
(* request is streamed, any number of route resolutions and listings run    *)
(* between its steps                                                        *)

NextConcurrent ==
    \/ PostMessages
    \/ HandlerWrite
    \/ HandlerEnd
    \/ HandlerCatch
    \/ StreamSteps
    \/ CallResolveRoute
    \/ GetHealth

SpecConcurrent == InitServer /\ [][NextConcurrent]_vars

----------------------------------------------------------------------------
(* Properties of the registry and the route resolver                        *)

IsResolveRoute == op.kind = "resolveRoute"

\* the part of an invalid_model message after "Available models: "
ListedModels(message) == SubSeq(message, 4, Len(message))

Occurrences(xs, x) == Cardinality({ i \in 1..Len(xs) : xs[i] = x })

\* C1: for every name m that is a key of the ModelConfig mapping,
\* resolveRoute(m) returns a RouteInfo if and only if the credential store
\* holds a credential for m.
C1_RegisteredSucceedsIffCredential ==
    (IsResolveRoute /\ op.modelName \in DOMAIN config.models)
        => (op.result.ok <=> op.modelName \in DOMAIN apiKeys)

\* C2: for every alias a whose target is the canonical model c,
\* resolveRoute(a) has the same outcome as resolveRoute(c).
C2_AliasBehavesAsTarget ==
    (/\ IsResolveRoute
     /\ op.modelName \in DOMAIN config.aliases
     /\ config.aliases[op.modelName] \in DOMAIN config.models)
        => op.result = resolveRoute(config.aliases[op.modelName])

\* C3: a name that is neither a key of the ModelConfig mapping nor an alias
\* key fails with invalid_model and status 400, whatever credentials are
\* configured, and the message lists every key of the mapping exactly once
\* and nothing else.
C3_UnknownNameIsInvalidModel ==
    (/\ IsResolveRoute
     /\ op.modelName \notin DOMAIN config.models
     /\ op.modelName \notin DOMAIN config.aliases)
        => /\ ~op.result.ok
           /\ op.result.errorType = "invalid_model"
           /\ op.result.statusCode = 400
           /\ LET listed == ListedModels(op.result.message)
              IN  /\ \A k \in DOMAIN config.models : Occurrences(listed, k) = 1
                  /\ Len(listed) = 2 * Cardinality(DOMAIN config.models) - 1
                  /\ \A i \in 1..Len(listed) :
                        IF i % 2 = 1 THEN listed[i] \in DOMAIN config.models
                                     ELSE listed[i] = ", "

\* an unknown name is refused while credentials exist and the file has
\* redefined a default model
C3_Witness ==
    /\ IsResolveRoute
    /\ op.modelName = "nonexistent"
    /\ "deepseek" \in DOMAIN apiKeys
    /\ config.models["deepseek"].model_id = "deepseek-reasoner"
    /\ ~op.result.ok

\* C4: when the requested name resolves to a registered model whose
\* credential is absent, resolveRoute fails with authentication_error and
\* status 401 and the message names that model's api_key_env; no RouteInfo
\* carries an empty apiKey.
C4_MissingCredentialIsAuthError ==
    IsResolveRoute =>
        LET resolved == resolveModelName(op.modelName)
        IN  /\ (resolved \in DOMAIN config.models /\ resolved \notin DOMAIN apiKeys)
                  => /\ ~op.result.ok
                     /\ op.result.errorType = "authentication_error"
                     /\ op.result.statusCode = 401
                     /\ Occurrences(op.result.message,
                                    config.models[resolved].api_key_env) = 1
            /\ op.result.ok => op.result.apiKey # ""

\* C5: resolveModelName returns n itself when n is a key of the ModelConfig
\* mapping (also when n is an alias key as well), the alias target when n is
\* only an alias key, and n unchanged when n is unknown.
C5_ResolveModelName ==
    op.kind = "resolveModelName" =>
        op.result = IF op.name \in DOMAIN config.models THEN op.name
                    ELSE IF op.name \in DOMAIN config.aliases THEN config.aliases[op.name]
                    ELSE op.name

\* C6: an alias whose target is not a key of the ModelConfig mapping (an
\* unknown string or another alias key) fails with invalid_model: resolution
\* follows at most one alias hop.
C6_DanglingAliasIsNotFound ==
    (/\ IsResolveRoute
     /\ op.modelName \in DOMAIN config.aliases
     /\ config.aliases[op.modelName] \notin DOMAIN config.models)
        => /\ ~op.result.ok
           /\ op.result.errorType = "invalid_model"
           /\ op.result.statusCode = 400

----------------------------------------------------------------------------
(* Properties of the transformer                                            *)

\* a forwarding call has sent its request upstream
Issued == call.pc # "idle" /\ call.outbound.issued

Min(a, b) == IF a <= b THEN a ELSE b

\* C7 as stated: the body sent upstream by forwardRequest and by
\* forwardStream has its model field equal to the routed model's model_id,
\* and the client-supplied name is never sent upstream.
C7_ClientNameNeverSent ==
    Issued => /\ call.outbound.body.model = call.route.config.model_id
              /\ call.outbound.body.model # call.request.model

\* C7 amended: the body sent upstream by forwardRequest and by forwardStream
\* has its model field equal to the model_id of the registered model the
\* request was routed to; the client-supplied name is sent upstream only
\* when it is that model_id itself.
C7_ModelSubstitution ==
    Issued => /\ \E k \in DOMAIN config.models :
                    /\ call.route.config = config.models[k]
                    /\ call.outbound.body.model = config.models[k].model_id
              /\ call.outbound.body.model = call.request.model
                    => call.request.model = call.route.config.model_id

\* a streaming call made under an alias sends the model_id, not the alias
C7_Witness ==
    /\ Issued
    /\ call.fn = "forwardStream"
    /\ call.request.model = "sonnet"
    /\ "max_tokens" \notin DOMAIN call.request
    /\ call.outbound.body.model = "claude-sonnet"

\* C8: buildRequestBody clamps max_tokens downward only: a supplied
\* max_tokens goes out as the smaller of the client value and the model's
\* ceiling (its configured max_tokens, 8192 when it configures none), never
\* greater than the client value; an omitted max_tokens stays omitted.
C8_ClampDownwardOnly ==
    op.kind = "buildRequestBody" =>
        LET ceiling == IF "max_tokens" \in DOMAIN op.modelConfig
                          THEN op.modelConfig.max_tokens ELSE 8192
        IN  IF "max_tokens" \in DOMAIN op.request
                THEN /\ "max_tokens" \in DOMAIN op.result
                     /\ op.result.max_tokens = Min(op.request.max_tokens, ceiling)
                     /\ op.result.max_tokens <= op.request.max_tokens
                ELSE "max_tokens" \notin DOMAIN op.result

\* 999999 requested of a model with ceiling 8192 goes out as 8192
C8_Witness ==
    /\ op.kind = "buildRequestBody"
    /\ "max_tokens" \in DOMAIN op.request
    /\ op.request.max_tokens = 999999
    /\ op.modelConfig.model_id = "deepseek-chat"
    /\ op.result.max_tokens = 8192

\* the outbound headers the followed call would have sent had the inbound
\* request carried the headers h
OutboundHeadersWith(h) ==
    IF call.fn = "forwardRequest"
        THEN forwardRequest(call.request, originalHeadersOf(h), [kind |-> "abort"]).outbound.headers
        ELSE streamOutbound(call.route, call.request, originalHeadersOf(h)).headers

\* the value of the inbound beta-features header, if it has one
BetaOf(h) == IF "anthropic-beta" \in DOMAIN h THEN {h["anthropic-beta"]} ELSE {}

\* C9: the outbound headers carry Content-Type: application/json, Accept
\* (application/json, text/event-stream when streaming) and the provider's
\* auth header with the resolved credential, and nothing else but the
\* version and beta headers of the native provider; two requests that
\* differ only in inbound headers other than the beta header, or in any
\* inbound header when the provider is not the native one, send the same
\* outbound headers.
C9_OutboundHeaders ==
    Issued =>
        LET headers == call.outbound.headers
            mc == call.route.config
            auth == IF "auth_header" \in DOMAIN mc THEN mc.auth_header ELSE "x-api-key"
            native == mc.provider = "anthropic"
        IN  /\ {"Content-Type", "Accept", auth} \subseteq DOMAIN headers
            /\ headers["Content-Type"] = "application/json"
            /\ headers["Accept"] = IF call.fn = "forwardStream"
                                      THEN "text/event-stream" ELSE "application/json"
            /\ headers[auth] = call.route.apiKey
            /\ DOMAIN headers \subseteq
                    {"Content-Type", "Accept", auth}
                    \cup (IF native THEN {"anthropic-version", "anthropic-beta"} ELSE {})
            /\ \A h \in AlternativeHeaders :
                    (native => BetaOf(h) = BetaOf(call.reqHeaders))
                        => OutboundHeadersWith(h) = headers

\* a streaming call to the native provider whose inbound request carried a
\* beta header next to other headers
C9_Witness ==
    /\ Issued
    /\ call.fn = "forwardStream"
    /\ call.route.config.provider = "anthropic"
    /\ DOMAIN call.reqHeaders = {"anthropic-beta", "anthropic-version", "cache-control"}
    /\ "anthropic-beta" \in DOMAIN call.outbound.headers

\* C10: buildUrl strips one trailing slash from the base URL and appends
\* the endpoint for the native provider, '/v1/messages' for another
\* provider whose base URL contains '/anthropic' or '/coding', and the
\* endpoint otherwise; the request {model: 'ds'} goes to the deepseek base
\* URL followed by '/v1/messages'.
C10_BuildUrl ==
    /\ op.kind = "buildUrl" =>
          LET base == op.modelConfig.base_url
              stripped == IF base # <<>> /\ base[Len(base)] = "/"
                             THEN SubSeq(base, 1, Len(base) - 1) ELSE base
              marked == \/ Includes(base, <<"/","a","n","t","h","r","o","p","i","c">>)
                        \/ Includes(base, <<"/","c","o","d","i","n","g">>)
          IN  op.result = stripped \o
                  (IF op.modelConfig.provider = "anthropic" THEN op.endpoint
                   ELSE IF marked THEN <<"/","v","1","/","m","e","s","s","a","g","e","s">>
                   ELSE op.endpoint)
    /\ (Issued /\ call.request.model = "ds") =>
          call.outbound.url = config.models["deepseek"].base_url
                                \o <<"/","v","1","/","m","e","s","s","a","g","e","s">>

\* a base URL with a trailing slash and the '/coding' marker, asked for
\* another endpoint
C10_Witness ==
    /\ op.kind = "buildUrl"
    /\ op.modelConfig.base_url = UrlKimi
    /\ op.endpoint = EndpointComplete
    /\ op.result = SubSeq(UrlKimi, 1, Len(UrlKimi) - 1) \o EndpointMessages

\* the request {model: 'ds'} has been sent upstream
C10_WitnessDs ==
    /\ Issued
    /\ call.request.model = "ds"
    /\ call.fn = "forwardRequest"

----------------------------------------------------------------------------
(* Properties of the streaming forwarder                                    *)

\* the forwardStream call that is followed has got its response headers
IsStream == call.pc # "idle" /\ call.fn = "forwardStream"

\* the double newlines that delimit events in a text, read from the left:
\* a delimiter lies inside a run of newlines and is a pair counted from the
\* start of that run
DelimitersOf(text) ==
    { p \in 1..(Len(text) - 1) :
        /\ text[p] = "\n" /\ text[p + 1] = "\n"
        /\ LET runStart == CHOOSE i \in 1..p :
                              /\ \A j \in i..p : text[j] = "\n"
                              /\ i = 1 \/ text[i - 1] # "\n"
           IN  (p - runStart) % 2 = 0 }

\* the k-th element of a set of numbers, in increasing order
Nth(S, k) == CHOOSE x \in S : Cardinality({ y \in S : y < x }) = k - 1

\* the pieces of a text between its delimiters, and what follows the last
PiecesOf(text) ==
    LET D == DelimitersOf(text)
        from(k) == IF k = 1 THEN 1 ELSE Nth(D, k - 1) + 2
    IN  [k \in 1..Cardinality(D) |-> SubSeq(text, from(k), Nth(D, k) - 1)]

TailOf(text) ==
    LET D == DelimitersOf(text)
    IN  IF D = {} THEN text
        ELSE SubSeq(text, Nth(D, Cardinality(D)) + 2, Len(text))

\* the events a text holds whatever its chunks: every piece that is not
\* white space, closed by a double newline
CompleteEventsOf(text) ==
    LET kept == SelectSeq(PiecesOf(text), HasContent)
    IN  [k \in 1..Len(kept) |-> DataEvent(kept[k] \o <<"\n", "\n">>)]

EndsInDoubleNewline(s) ==
    Len(s) >= 2 /\ s[Len(s)] = "\n" /\ s[Len(s) - 1] = "\n"

TwoEvents == <<"a", "\n", "\n", "a", "\n", "\n">>

C12_TrailingPartialEvent ==
    (IsStream /\ call.ending = "closed") =>
        LET complete == CompleteEventsOf(call.received)
        IN  /\ IndexOfDelimiter(call.buffer) = 0
            /\ IF HasContent(call.buffer)
                 THEN /\ Len(call.yielded) = Len(complete) + 1
                      /\ SubSeq(call.yielded, 1, Len(complete)) = complete
                      /\ call.yielded[Len(call.yielded)]
                            = DataEvent(call.buffer \o <<"\n", "\n">>)
                 ELSE call.yielded = complete

\* a complete event followed by a partial one, then the close
C12_Witness ==
    /\ IsStream
    /\ call.ending = "closed"
    /\ call.received = <<"a", "\n", "\n", "a", " ">>
    /\ call.buffer = <<"a", " ">>
    /\ call.yielded = <<DataEvent(<<"a", "\n", "\n">>), DataEvent(<<"a", " ", "\n", "\n">>)>>

\* the initial response of the followed forwardStream call has arrived
\* with a non-2xx status
NonOkResponse == IsStream /\ call.status # 0 /\ ~(call.status >= 200 /\ call.status <= 299)

\* C13 as stated: a non-2xx initial response makes forwardStream yield
\* exactly one event, an error event whose payload is of type api_error,
\* no data event, and then terminate.
C13_NonOkYieldsApiErrorEvent ==
    NonOkResponse =>
        /\ call.pc = "done"
        /\ Len(call.yielded) = 1
        /\ call.yielded[1].kind = "error"
        /\ call.yielded[1].payload.type = "error"
        /\ call.yielded[1].payload.error.type = "api_error"

\* C13, amended: a non-2xx initial response makes forwardStream yield
\* exactly one event, an error event, read nothing of the body as data,
\* and terminate; the payload is of type api_error with the upstream's
\* message when the error body could be read, and is the event of the
\* catch block for the read failure when it could not.
C13_NonOkYieldsOneErrorEvent ==
    NonOkResponse =>
        /\ call.pc = "done"
        /\ Len(call.yielded) = 1
        /\ call.yielded[1].kind = "error"
        /\ call.yielded[1].payload.type = "error"
        /\ call.reads = 0 /\ call.received = <<>>
        /\ call.ending \in {"status", "caught"}
        /\ call.ending = "status" =>
              /\ call.yielded[1].payload.error.type = "api_error"
              /\ \E errorText \in StreamErrorTexts :
                    call.yielded[1].payload.error.message
                        = <<IF errorText = "{\"error\":{\"message\":\"Overloaded\"}}"
                              THEN "Overloaded" ELSE errorText>>
        /\ call.ending = "caught" =>
              /\ call.failure.name # "none"
              /\ call.yielded[1].payload.error.type # "api_error"
              /\ call.yielded[1].payload.error.message = call.failure.message

\* the upstream answered 429 with a JSON error body
C13_Witness ==
    /\ NonOkResponse
    /\ call.status = 429
    /\ call.ending = "status"
    /\ call.yielded = <<ErrorEvent("api_error", <<"Overloaded">>)>>

\* positions of the synthesized error events among the yielded events
ErrorPositions == { k \in 1..Len(call.yielded) : call.yielded[k].kind = "error" }

\* C14: a read that fails after at least one successful read makes
\* forwardStream yield exactly one error event, which carries the message
\* of the failure; on every path at most one error event is yielded, it is
\* the last element of the sequence, and the generator has ended with it.
C14_OneTerminalErrorEvent ==
    IsStream =>
        /\ Cardinality(ErrorPositions) <= 1
        /\ \A k \in ErrorPositions : k = Len(call.yielded) /\ call.pc = "done"
        /\ (call.ending = "caught" /\ call.reads >= 1) =>
              /\ ErrorPositions = {Len(call.yielded)}
              /\ call.yielded[Len(call.yielded)].payload.error.message = call.failure.message
              /\ call.failure.message = <<"terminated">>

\* one event was relayed, a second one was cut off by the failure
C14_Witness ==
    /\ IsStream
    /\ call.ending = "caught"
    /\ call.reads >= 1
    /\ call.received = <<"a", "\n", "\n", "a">>
    /\ Len(call.yielded) = 2
    /\ call.yielded[1] = DataEvent(<<"a", "\n", "\n">>)
    /\ call.yielded[2].kind = "error"

----------------------------------------------------------------------------
(* Properties of the failures of the upstream call                          *)

\* the followed forwardRequest call has sent its request upstream
IssuedRequest == call.pc # "idle" /\ call.fn = "forwardRequest" /\ call.outbound.issued

C16_TimerCoversTheBody ==
    IsStream =>
        /\ call.pc = "fetching" => call.timer = "armed"
        /\ call.pc = "reading" => call.timer = "armed"

\* C17: the error event of a failed streaming call has type timeout_error
\* when the deadline expired and connection_error when the transport failed
\* otherwise (fetch rejected, or a read of the body rejected).
C17_StreamErrorTypes ==
    (IsStream /\ call.ending = "caught") =>
        LET type == call.yielded[Len(call.yielded)].payload.error.type
        IN  /\ call.failure.name = "AbortError" => type = "timeout_error"
            /\ call.failure.name = "TypeError" => type = "connection_error"

----------------------------------------------------------------------------
(* Properties of the POST /v1/messages handler                              *)

IsPostMessages == res.handler = "postMessages"

IsStreamingRequest ==
    /\ IsPostMessages
    /\ "stream" \in DOMAIN res.body
    /\ res.body.stream

IsPrefix(s, t) == Len(s) <= Len(t) /\ SubSeq(t, 1, Len(s)) = s

\* the events of a text received from upstream, in the order of its bytes
EventsInOrderReceived(text) ==
    CompleteEventsOf(text)
      \o (IF HasContent(TailOf(text)) THEN <<DataEvent(TailOf(text) \o <<"\n", "\n">>)>> ELSE <<>>)

\* C18: for a streaming request the events written to the client are
\* exactly the events forwardStream has yielded, in the same order, which
\* for the data events is the order of their bytes in the text received
\* from upstream; when the response is complete every yielded event has
\* been written once.
C18_RelayExactlyInOrder ==
    IsStreamingRequest =>
        /\ IsPrefix(res.written, call.yielded)
        /\ IsPrefix(SelectSeq(res.written, LAMBDA e : e.kind = "data"),
                    EventsInOrderReceived(call.received))
        /\ res.pc = "completed" => res.written = call.yielded

\* C19: a request for an unknown model name is answered with status 400
\* and a JSON error of type invalid_model, a request for a registered
\* model without credential with status 401 and a JSON error of type
\* authentication_error, with stream: true as with stream: false.
C19_RoutingFailureStatus ==
    (IsPostMessages /\ res.pc = "completed") =>
        LET n == res.body.model
        IN  /\ n \notin (DOMAIN config.models \cup DOMAIN config.aliases) =>
                  /\ res.statusCode = 400
                  /\ res.json.sent
                  /\ res.json.body.type = "error"
                  /\ res.json.body.error.type = "invalid_model"
            /\ (n \in DOMAIN config.models /\ n \notin DOMAIN apiKeys) =>
                  /\ res.statusCode = 401
                  /\ res.json.sent
                  /\ res.json.body.type = "error"
                  /\ res.json.body.error.type = "authentication_error"

\* positions of the error events among the events written to the client
WrittenErrorPositions == { k \in 1..Len(res.written) : res.written[k].kind = "error" }

\* a streaming request failed and the failure was not answered in JSON
StreamFailureReported ==
    /\ IsStreamingRequest
    /\ res.pc = "completed"
    /\ ~res.json.sent
    /\ call.ending \in {"caught", "status", "thrown"}

\* C20: once headers or body of a response have been sent, no step of the
\* handler changes the status code or sends a JSON body; a failure of a
\* streaming request that is not answered in JSON is reported by exactly
\* one SSE error event, which is the last event written, and the stream
\* is closed.
C20_CommittedResponse ==
    /\ [][(IsPostMessages /\ res.headersSent) =>
              /\ res'.statusCode = res.statusCode
              /\ res'.json = res.json]_vars
    /\ [](StreamFailureReported =>
              /\ res.statusCode = 200
              /\ WrittenErrorPositions = {Len(res.written)}
              /\ res.ended
              /\ res.completions = 1)

\* the upstream broke off after one event had been relayed
C20_Witness ==
    /\ StreamFailureReported
    /\ call.ending = "caught"
    /\ call.reads >= 1
    /\ Len(res.written) = 2
    /\ res.written[1].kind = "data"
    /\ res.written[2].kind = "error"
    /\ res.ended

\* the six kinds of failure a client may be told
ErrorKinds ==
    {"invalid_model", "authentication_error", "api_error", "timeout_error",
     "connection_error", "internal_error"}

\* {type: 'error', error: {type, message}} with one of the six kinds
IsErrorShape(obj) ==
    /\ DOMAIN obj = {"type", "error"}
    /\ obj.type = "error"
    /\ DOMAIN obj.error = {"type", "message"}
    /\ obj.error.type \in ErrorKinds

\* C21: every failure that reaches the client of POST /v1/messages, as a
\* JSON body sent with an error status or as an SSE error event, has the
\* shape {type: 'error', error: {type, message}} with error.type one of
\* the six kinds.
C21_ErrorTaxonomy ==
    IsPostMessages =>
        /\ (res.json.sent /\ res.statusCode >= 400) => IsErrorShape(res.json.body)
        /\ \A k \in WrittenErrorPositions : IsErrorShape(res.written[k].payload)

\* C22: a request without model field is routed as the request that
\* names the configured default_model: the handler forwards that request,
\* and route, outbound request and outcome of the forwarding call are
\* those of forwarding it.
C22_DefaultModelSubstituted ==
    (IsPostMessages /\ "model" \notin DOMAIN res.inbound) =>
        LET explicit == SetField(res.inbound, "model", config.default_model)
        IN  /\ res.body = explicit
            /\ call.request = explicit
            /\ IF IsStreamingRequest
                 THEN LET started == startForwardStream(explicit, res.reqHeaders, call.upstream)
                      IN  /\ call.route = started.route
                          /\ call.outbound = started.outbound
                          /\ call.pc = "thrown" <=> started.pc = "thrown"
                          /\ call.pc = "thrown" => call.result = started.result
                 ELSE LET out == forwardRequest(explicit, originalHeadersOf(res.reqHeaders),
                                                call.upstream)
                      IN  /\ call.route = out.route
                          /\ call.outbound = out.outbound
                          /\ call.result = out.result
                          /\ ~out.result.ok =>
                                /\ res.statusCode = out.result.statusCode
                                /\ res.json.body = toErrorResponse(out.result)

\* a request without model was sent upstream as kimi, the default_model of
\* the config file
C22_Witness ==
    /\ IsPostMessages
    /\ "model" \notin DOMAIN res.inbound
    /\ config.default_model = "kimi"
    /\ call.outbound.issued
    /\ call.outbound.body.model = config.models["kimi"].model_id
    /\ call.route.name = "kimi"

----------------------------------------------------------------------------
(* Properties of the listings                                               *)

\* the credential store holds a credential for the model's own name
HasOwnCredential(name) == name \in DOMAIN apiKeys

\* C23: /health, /v1/models and listModels each list every registered
\* model exactly once and mark it available exactly when the credential
\* store holds a credential under the model's own name (so the three
\* agree); /health answers 200; without credentials every model is listed
\* as no_api_key / unavailable.
C23_ListingsAgree ==
    /\ op.kind = "listModels" =>
          /\ DOMAIN op.result.result = DOMAIN config.models
          /\ \A n \in DOMAIN config.models : Occurrences(op.result.order, n) = 1
          /\ \A n \in DOMAIN config.models :
                op.result.result[n].available <=> HasOwnCredential(n)
    /\ op.kind = "health" =>
          /\ op.result.statusCode = 200
          /\ DOMAIN op.result.body.models = DOMAIN config.models
          /\ \A n \in DOMAIN config.models :
                op.result.body.models[n] =
                    (IF HasOwnCredential(n) THEN "available" ELSE "no_api_key")
    /\ op.kind = "v1Models" =>
          LET data == op.result.body.data
          IN  /\ \A n \in DOMAIN config.models :
                    Cardinality({ k \in 1..Len(data) : data[k].id = n }) = 1
              /\ \A k \in 1..Len(data) :
                    /\ data[k].id \in DOMAIN config.models
                    /\ data[k].available <=> HasOwnCredential(data[k].id)

----------------------------------------------------------------------------
(* Properties of the loaded configuration                                   *)

\* C24: whatever the config file, the loaded RouterConfig has a
\* default_model, a gateway timeout, host and port, and for every
\* registered model a model_id, a base_url and an api_key_env, and no
\* forwarding call fails on an undefined configuration field (every
\* failure is a RouterError).
C24_LoadedConfigComplete ==
    /\ "default_model" \in DOMAIN config
    /\ {"timeout", "host", "port"} \subseteq DOMAIN config.gateway
    /\ \A n \in DOMAIN config.models :
          {"model_id", "base_url", "api_key_env"} \subseteq DOMAIN config.models[n]
    /\ (call.pc = "thrown") => "errorType" \in DOMAIN call.result

----------------------------------------------------------------------------
(* Properties of concurrent requests                                        *)

\* C25: no step of any request writes to the ModelConfig mapping, the
\* alias mapping or the credential store, however the steps of concurrent
\* requests interleave; so the outcome of a route resolution made between
\* the steps of a streaming request, and the route of that streaming
\* request, are those the constructed registry gives.
C25_RegistryReadOnly ==
    /\ [][config' = config /\ apiKeys' = apiKeys /\ env' = env]_vars
    /\ [](op.kind = "resolveRoute" => op.result = resolveRoute(op.modelName))
    /\ []((IsPostMessages /\ IsStreamingRequest) => call.route = resolveRoute(res.body.model))

\* a route was resolved while a streaming request was between two writes
C25_Witness ==
    /\ IsStreamingRequest
    /\ res.pc = "running"
    /\ Len(res.written) = 1
    /\ call.pc = "reading"
    /\ op.kind = "resolveRoute"
    /\ op.result.ok

----------------------------------------------------------------------------
(* Properties of the life of a forwardStream call                           *)

StreamOver == IsStream /\ call.pc \in {"done", "thrown"}

ConcatTexts(events) ==
    LET RECURSIVE cat(_)
        cat(k) == IF k = 0 THEN <<>> ELSE cat(k - 1) \o events[k].text
    IN  cat(Len(events))

\* C28: every string forwardStream yields has non-white-space content and
\* holds the delimiter "\n\n" only as its last two characters, so that
\* re-framing the concatenated output gives the same events again with
\* nothing left over, a trailing partial event that ended in a single
\* newline included.
C28_ReframingIdempotent ==
    IsStream =>
        LET data == SelectSeq(call.yielded, LAMBDA e : e.kind = "data")
        IN  /\ \A k \in 1..Len(data) :
                  /\ HasContent(data[k].text)
                  /\ IndexOfDelimiter(data[k].text) = Len(data[k].text) - 1
            /\ DrainBuffer(ConcatTexts(data)).events = data
            /\ DrainBuffer(ConcatTexts(data)).buffer = <<>>

\* C29: the handler of POST /v1/messages completes the response exactly
\* once, whatever the outcome of routing and forwarding: a completed
\* response was completed by one call, res.json or res.end; a request that
\* is not streamed is completed when forwardRequest has returned or thrown;
\* and after the completion the response never changes again (no write, no
\* status change, no second completion).
C29_CompletedExactlyOnce ==
    /\ [](res.handler = "postMessages" =>
            /\ res.completions = IF res.pc = "completed" THEN 1 ELSE 0
            /\ res.pc = "completed" <=> res.ended
            /\ call.fn = "forwardRequest" => res.pc = "completed"
            /\ res.json.sent => res.pc = "completed")
    /\ [][(res.handler = "postMessages" /\ res.pc = "completed") => res' = res]_vars

\* an unexpected exception (the TypeError of buildUrl) after the compiled
\* build has sent its headers: one stream_error event, one res.end
C29_Witness ==
    /\ res.handler = "postMessages"
    /\ res.build = "dist"
    /\ res.pc = "completed"
    /\ res.completions = 1
    /\ call.fn = "forwardStream"
    /\ call.pc = "thrown"
    /\ "errorType" \notin DOMAIN call.result
    /\ ~res.json.sent
    /\ Len(res.written) = 1
    /\ res.written[1].kind = "error"

\* the upstream of the forwardRequest call failed in transport: fetch
\* rejected, or the body broke off while it was read
TransportFailure ==
    \/ call.upstream.kind = "network"
    \/ call.upstream.kind = "response" /\ call.upstream.bodyFails

\* C30: forwardRequest reports only transport failures as connection_error
\* (502): a 2xx response whose body is not JSON is not reported so; and an
\* error body that is not JSON is reported, as raw text, inside an
\* api_error with the upstream's status.
C30_OnlyTransportIsConnectionError ==
    (call.pc # "idle" /\ call.fn = "forwardRequest" /\ call.outbound.issued) =>
        /\ (/\ ~call.result.ok
            /\ call.result.errorType = "connection_error") => TransportFailure
        /\ (/\ call.upstream.kind = "response"
            /\ ~call.upstream.bodyFails
            /\ ~ResponseOk(call.upstream.status)) =>
                /\ ~call.result.ok
                /\ call.result.errorType = "api_error"
                /\ call.result.statusCode = call.upstream.status
                /\ ~JSONParse(call.upstream.text).valid =>
                      call.result.message[Len(call.result.message)] = call.upstream.text

====
